---- MODULE Spec2Model ----
(***************************************************************************)
(* Model of the merge pipeline of books-pipeline                           *)
(* (src/src/integrate_pipeline.py): normalisation helpers, merge_records   *)
(* and run_pipeline (index construction, matching cascade, merge,          *)
(* deduplication by completeness score).                                   *)
(*                                                                         *)
(* Representation of Python values                                         *)
(*   str         a sequence of one-character strings, "" is << >>          *)
(*   None        the one-element tuple None (its element is no character)  *)
(*   int|None    an integer, NoneInt standing for None (the only integers  *)
(*               the code produces here are >= 0)                          *)
(*   authors     [kind |-> "none" | "str" | "list", val |-> ...], the      *)
(*               three shapes normalize_author dispatches on               *)
(*   dict index  a function whose DOMAIN is the set of keys                *)
(*                                                                         *)
(* A Python function whose local variables are read several times is       *)
(* written as a chain of operators, the locals being the parameters of the *)
(* next operator of the chain.                                             *)
(***************************************************************************)
EXTENDS Integers, Sequences, FiniteSets, TLC

VARIABLES
    date_parser,      \* build: TRUE iff `from dateutil import parser` succeeded
    gr_recs,          \* records of df_good (primary collection), in input order
    recs,             \* records of df_gg (secondary collection), in input order
    pc,               \* position of run_pipeline
    google_by_gbid,   \* the three lookup dicts
    google_by_isbn13,
    google_by_key,
    merged_rows,
    detail_rows,
    df_final,         \* sequence of [index, row]: the frame after deduplication
    sort_order,       \* the row order sort_values produced for merged_rows
    ts,               \* now_ts() of the current run
    run,              \* number of the current run over the same inputs
    prev_final,       \* outputs of the previous run
    prev_detail,
    metrics,          \* the dict written to quality_metrics.json
    query,            \* search_api_all (enrich_googlebooks.py): its argument
    start,            \* startIndex of the next request
    results,          \* the items accumulated
    res,              \* the outcome of the last SESSION.get
    loop              \* position of search_api_all

vars == <<date_parser, gr_recs, recs, pc, google_by_gbid, google_by_isbn13,
          google_by_key, merged_rows, detail_rows, df_final, sort_order, ts, run,
          prev_final, prev_detail, metrics, query, start, results, res, loop>>

pipeline_vars == <<date_parser, gr_recs, recs, pc, google_by_gbid, google_by_isbn13,
                   google_by_key, merged_rows, detail_rows, df_final, sort_order, ts, run,
                   prev_final, prev_detail, metrics>>

search_vars == <<query, start, results, res, loop>>

None == <<"None">>
NoneInt == -1

\* ------------------------------------------------------------------------
\* Characters
\* ------------------------------------------------------------------------
Digits == <<"0", "1", "2", "3", "4", "5", "6", "7", "8", "9">>
UpperCase == <<"A", "B", "C", "D", "E", "F", "G", "H", "I", "J", "K", "L", "M",
               "N", "O", "P", "Q", "R", "S", "T", "U", "V", "W", "X", "Y", "Z">>
LowerCase == <<"a", "b", "c", "d", "e", "f", "g", "h", "i", "j", "k", "l", "m",
               "n", "o", "p", "q", "r", "s", "t", "u", "v", "w", "x", "y", "z">>

Range(f) == {f[i] : i \in DOMAIN f}

\* \s of the re module and the characters str.strip() removes
IsSpace(c) == c \in {" ", "\t"}
\* str.isdigit on one character
IsDigit(c) == c \in Range(Digits)
\* \w of the re module
IsWord(c) == c \in Range(Digits) \cup Range(UpperCase) \cup Range(LowerCase) \cup {"_"}
\* str.lower on one character
LowerChar(c) ==
    IF c \in Range(UpperCase)
    THEN LowerCase[CHOOSE i \in DOMAIN UpperCase : UpperCase[i] = c]
    ELSE c
\* str.upper on one character
UpperChar(c) ==
    IF c \in Range(LowerCase)
    THEN UpperCase[CHOOSE i \in DOMAIN LowerCase : LowerCase[i] = c]
    ELSE c

\* ------------------------------------------------------------------------
\* str methods and re.sub calls used by the normalisers
\* ------------------------------------------------------------------------
RECURSIVE lstrip(_)
lstrip(s) ==
    IF s = <<>> THEN s
    ELSE IF IsSpace(Head(s)) THEN lstrip(Tail(s)) ELSE s

RECURSIVE rstrip(_)
rstrip(s) ==
    IF s = <<>> THEN s
    ELSE IF IsSpace(s[Len(s)]) THEN rstrip(SubSeq(s, 1, Len(s) - 1)) ELSE s

strip(s) == rstrip(lstrip(s))

RECURSIVE lower(_)
lower(s) == IF s = <<>> THEN <<>> ELSE <<LowerChar(Head(s))>> \o lower(Tail(s))

RECURSIVE upper(_)
upper(s) == IF s = <<>> THEN <<>> ELSE <<UpperChar(Head(s))>> \o upper(Tail(s))

isdigit(s) == s # <<>> /\ \A i \in 1..Len(s) : IsDigit(s[i])

endswith(s, suffix) ==
    /\ Len(s) >= Len(suffix)
    /\ SubSeq(s, Len(s) - Len(suffix) + 1, Len(s)) = suffix

\* re.sub(r"\s+", " ", s)
RECURSIVE sub_ws(_)
sub_ws(s) ==
    IF s = <<>> THEN <<>>
    ELSE IF IsSpace(Head(s)) THEN <<" ">> \o sub_ws(lstrip(Tail(s)))
    ELSE <<Head(s)>> \o sub_ws(Tail(s))

\* re.sub(r"[^\w\s]", "", t)
sub_punct(s) == SelectSeq(s, LAMBDA c : IsWord(c) \/ IsSpace(c))

\* re.split(r"[|,;]", s)
RECURSIVE re_split(_)
re_split(s) ==
    IF \E i \in 1..Len(s) : s[i] \in {"|", ",", ";"}
    THEN LET i == CHOOSE j \in 1..Len(s) :
                      /\ s[j] \in {"|", ",", ";"}
                      /\ \A k \in 1..(j - 1) : s[k] \notin {"|", ",", ";"}
         IN  <<SubSeq(s, 1, i - 1)>> \o re_split(SubSeq(s, i + 1, Len(s)))
    ELSE <<s>>

\* sep.join(parts)
RECURSIVE join(_, _)
join(sep, parts) ==
    IF parts = <<>> THEN <<>>
    ELSE IF Len(parts) = 1 THEN parts[1]
    ELSE parts[1] \o sep \o join(sep, Tail(parts))

\* int(s) for a string of digits
RECURSIVE int(_)
int(s) ==
    IF s = <<>> THEN 0
    ELSE 10 * int(SubSeq(s, 1, Len(s) - 1))
         + ((CHOOSE i \in DOMAIN Digits : Digits[i] = s[Len(s)]) - 1)

\* str(n) for an integer n >= 0
RECURSIVE str_int(_)
str_int(n) ==
    IF n < 10 THEN <<Digits[n + 1]>>
    ELSE str_int(n \div 10) \o <<Digits[(n % 10) + 1]>>

\* f"{n:0{w}d}"
RECURSIVE zfill(_, _)
zfill(s, w) == IF Len(s) >= w THEN s ELSE zfill(<<"0">> \o s, w)

\* ------------------------------------------------------------------------
\* NORMALIZACION
\* ------------------------------------------------------------------------
\* normalize_str after s = str(val).strip() (lines 121-126)
normalize_stripped(s) ==
    IF s = <<>> \/ lower(s) = <<"n", "a", "n">> THEN None
    ELSE sub_ws(IF endswith(s, <<".", "0">>) /\ isdigit(SubSeq(s, 1, Len(s) - 2))
                THEN SubSeq(s, 1, Len(s) - 2)
                ELSE s)

normalize_str(val) == IF val = None THEN None ELSE normalize_stripped(strip(val))

\* normalize_title after t = normalize_str(title) (lines 130-134)
normalize_title_of(t) ==
    IF t = None \/ t = <<>> THEN None
    ELSE strip(sub_ws(sub_punct(lower(t))))

normalize_title(title) == normalize_title_of(normalize_str(title))

\* [normalize_str(p) for p in parts if normalize_str(p)]
prepend_if_truthy(n, rest) == IF n = None \/ n = <<>> THEN rest ELSE <<n>> \o rest

RECURSIVE keep_normalized(_)
keep_normalized(parts) ==
    IF parts = <<>> THEN <<>>
    ELSE prepend_if_truthy(normalize_str(Head(parts)), keep_normalized(Tail(parts)))

normalize_author(auth) ==
    IF auth.kind = "none" \/ auth.val = <<>> THEN <<>>
    ELSE IF auth.kind = "str" THEN keep_normalized(re_split(auth.val))
    ELSE IF auth.kind = "list" THEN keep_normalized(auth.val)
    ELSE <<>>

\* a[0] if a else ""
first_or_empty(a) == IF a # <<>> THEN a[1] ELSE <<>>

get_first_author(auth) == first_or_empty(normalize_author(auth))

\* ------------------------------------------------------------------------
\* Dates.  The texts of the model are None, ISO-shaped texts (YYYY, YYYY-M,
\* YYYY-M-D with one or two digits for month and day) and texts holding no
\* date at all.
\* ------------------------------------------------------------------------
\* the number of leading digits of s, at most n
RECURSIVE leading_digits(_, _)
leading_digits(s, n) ==
    IF n = 0 \/ s = <<>> \/ ~IsDigit(Head(s)) THEN 0
    ELSE 1 + leading_digits(Tail(s), n - 1)

\* the (-(\d{1,2})) groups that follow the year, at most `left` of them
RECURSIVE more_groups(_, _)
more_groups(rest, left) ==
    IF left > 0 /\ rest # <<>> /\ Head(rest) = "-" /\ leading_digits(Tail(rest), 2) >= 1
    THEN <<SubSeq(Tail(rest), 1, leading_digits(Tail(rest), 2))>>
         \o more_groups(SubSeq(rest, leading_digits(Tail(rest), 2) + 2, Len(rest)), left - 1)
    ELSE <<>>

\* the groups of the first of the three patterns of lines 179-185 that
\* matches s: ^(\d{4})-(\d{1,2})-(\d{1,2}), ^(\d{4})-(\d{1,2}), ^(\d{4});
\* << >> when none matches
date_groups(s) ==
    IF leading_digits(s, 4) = 4
    THEN <<SubSeq(s, 1, 4)>> \o more_groups(SubSeq(s, 5, Len(s)), 2)
    ELSE <<>>

days_in_month(y, m) ==
    IF m \in {4, 6, 9, 11} THEN 30
    ELSE IF m = 2
         THEN (IF (y % 4 = 0 /\ y % 100 # 0) \/ y % 400 = 0 THEN 29 ELSE 28)
         ELSE 31

\* the exception parser.parse raises
ParserError == [ok |-> FALSE, year |-> 1, month |-> 1, day |-> 1]

\* the datetime of year y, month m, day d, over default=datetime(1,1,1)
datetime_of(y, m, d) ==
    IF y >= 1 /\ m \in 1..12 /\ d >= 1 /\ d <= days_in_month(y, m)
    THEN [ok |-> TRUE, year |-> y, month |-> m, day |-> d]
    ELSE ParserError

\* a lone number: up to 31 it is read as the day of month, else as the year
lone_number(n) == IF n > 31 THEN datetime_of(n, 1, 1) ELSE datetime_of(1, 1, n)

\* dateutil's parser.parse(s, default=datetime(1,1,1)) on the texts of the
\* model: a text that is not wholly of an ISO shape holds no date
dateutil_groups(s, g) ==
    IF g = <<>> \/ Len(join(<<"-">>, g)) # Len(s) THEN ParserError
    ELSE IF Len(g) = 1 THEN lone_number(int(g[1]))
    ELSE IF Len(g) = 2 THEN datetime_of(int(g[1]), int(g[2]), 1)
    ELSE datetime_of(int(g[1]), int(g[2]), int(g[3]))

dateutil_parse(s) == dateutil_groups(s, date_groups(s))

\* lines 171-175
format_datetime(dt) ==
    IF dt.day # 1
    THEN zfill(str_int(dt.year), 4) \o <<"-">> \o zfill(str_int(dt.month), 2)
         \o <<"-">> \o zfill(str_int(dt.day), 2)
    ELSE IF dt.month # 1
    THEN zfill(str_int(dt.year), 4) \o <<"-">> \o zfill(str_int(dt.month), 2)
    ELSE zfill(str_int(dt.year), 4)

\* lines 179-188
format_groups(g) ==
    IF Len(g) = 3
    THEN g[1] \o <<"-">> \o zfill(str_int(int(g[2])), 2) \o <<"-">> \o zfill(str_int(int(g[3])), 2)
    ELSE IF Len(g) = 2
    THEN g[1] \o <<"-">> \o zfill(str_int(int(g[2])), 2)
    ELSE IF Len(g) = 1 THEN g[1]
    ELSE None

\* lines 168-188; date_parser is the outcome of the optional import (lines 30-33)
iso_date_parsed(dt, g) ==
    IF date_parser /\ dt.ok THEN format_datetime(dt) ELSE format_groups(g)

\* iso_date after s = str(val).strip()
iso_date_stripped(s) ==
    IF s = <<>> \/ lower(s) = <<"n", "a", "n">> THEN None
    ELSE iso_date_parsed(dateutil_parse(s), date_groups(s))

iso_date(val) ==
    IF val = None \/ val = <<>> THEN None ELSE iso_date_stripped(strip(val))

\* ------------------------------------------------------------------------
\* Categories, currency, amounts, hash
\* ------------------------------------------------------------------------
\* s.split("|")
RECURSIVE split_bar(_)
split_bar(s) ==
    IF \E i \in 1..Len(s) : s[i] = "|"
    THEN LET i == CHOOSE j \in 1..Len(s) :
                      s[j] = "|" /\ \A k \in 1..(j - 1) : s[k] # "|"
         IN  <<SubSeq(s, 1, i - 1)>> \o split_bar(SubSeq(s, i + 1, Len(s)))
    ELSE <<s>>

\* [x.strip() for x in parts if x.strip()]
prepend_if_nonempty(x, rest) == IF x = <<>> THEN rest ELSE <<x>> \o rest

RECURSIVE strip_nonempty(_)
strip_nonempty(parts) ==
    IF parts = <<>> THEN <<>>
    ELSE prepend_if_nonempty(strip(Head(parts)), strip_nonempty(Tail(parts)))

normalize_categories(val) ==
    IF val.kind = "none" \/ val.val = <<>> THEN <<>>
    ELSE IF val.kind = "list" THEN strip_nonempty(val.val)
    ELSE IF \E i \in 1..Len(val.val) : val.val[i] = "|"
    THEN strip_nonempty(split_bar(val.val))
    ELSE <<strip(val.val)>>

\* mapping.get(s, s[:3]); the keys of `mapping` are written EUR_SIGN and
\* GBP_SIGN for the euro and pound signs
currency_code(s) ==
    IF s = <<"EUR_SIGN">> THEN <<"E", "U", "R">>
    ELSE IF s = <<"$">> THEN <<"U", "S", "D">>
    ELSE IF s = <<"GBP_SIGN">> THEN <<"G", "B", "P">>
    ELSE SubSeq(s, 1, IF Len(s) < 3 THEN Len(s) ELSE 3)

normalize_currency(curr) ==
    IF curr = None \/ curr = <<>> THEN None ELSE currency_code(upper(strip(curr)))

\* str(v).replace(",", ".")
replace_comma(s) == [i \in 1..Len(s) |-> IF s[i] = "," THEN "." ELSE s[i]]

\* float(s) for s with n leading digits.  A float is held as its number of
\* hundredths, None as NoneInt.  The texts of the model are None, decimal
\* texts with at most two fraction digits, and texts that float() rejects.
float_of(s, n) ==
    IF n >= 1 /\ n = Len(s) THEN 100 * int(s)
    ELSE IF n >= 1 /\ s[n + 1] = "." /\ Len(s) = n + 1 THEN 100 * int(SubSeq(s, 1, n))
    ELSE IF n >= 1 /\ s[n + 1] = "." /\ Len(s) = n + 2 /\ IsDigit(s[n + 2])
    THEN 100 * int(SubSeq(s, 1, n)) + 10 * int(SubSeq(s, n + 2, n + 2))
    ELSE IF n >= 1 /\ s[n + 1] = "." /\ Len(s) = n + 3 /\ IsDigit(s[n + 2]) /\ IsDigit(s[n + 3])
    THEN 100 * int(SubSeq(s, 1, n)) + int(SubSeq(s, n + 2, n + 3))
    ELSE NoneInt

float_text(s) == float_of(s, leading_digits(s, Len(s)))

safe_decimal(v) == IF v = None THEN NoneInt ELSE float_text(strip(replace_comma(v)))

\* f or "" for f in fields
RECURSIVE or_empty(_)
or_empty(fields) ==
    IF fields = <<>> THEN <<>>
    ELSE <<IF Head(fields) = None THEN <<>> ELSE Head(fields)>> \o or_empty(Tail(fields))

\* stable_hash_id: the SHA-1 digest is taken as injective on the string it
\* hashes and as never equal to an ISBN text, so the digest of a string is
\* that string behind the tag "sha1"
stable_hash_id(fields) == <<"sha1">> \o join(<<"|", "|">>, or_empty(fields))

\* ------------------------------------------------------------------------
\* MERGE LOGIC
\* ------------------------------------------------------------------------
EmptyDict == [k \in {} |-> None]
NoList == [kind |-> "none", val |-> <<>>]

\* d.get(k) for a text field, and for a field holding a list or a delimited string
Get(d, k) == IF k \in DOMAIN d THEN d[k] ELSE None
GetList(d, k) == IF k \in DOMAIN d THEN d[k] ELSE NoList

\* truth value of a text or None
Truthy(v) == v # None /\ v # <<>>
\* a or b
Or(a, b) == IF Truthy(a) THEN a ELSE b
\* a or b for amounts
OrAmount(a, b) == IF a # NoneInt /\ a # 0 THEN a ELSE b

\* choose_survivor taking the secondary's value when the two differ
choose_survivor_newest(val_g, val_gg, prefer) ==
    IF val_g = None THEN val_gg
    ELSE IF val_gg = None THEN val_g
    ELSE IF strip(val_g) = strip(val_gg) THEN val_g
    ELSE val_gg

choose_survivor(val_g, val_gg, prefer) ==
    IF val_g = None THEN val_gg
    ELSE IF val_gg = None THEN val_g
    ELSE IF strip(val_g) = strip(val_gg) THEN val_g
    ELSE IF prefer = "goodreads" THEN val_g ELSE val_gg

\* the loops of lines 231-236 and 243-248
RECURSIVE union_normalized(_, _)
\* union_step comparing against nothing: every entry is appended
union_step_append(n, rest, seen) ==
    IF Truthy(n)
    THEN <<n>> \o union_normalized(rest, seen \cup {n})
    ELSE union_normalized(rest, seen)

union_step(n, rest, seen) ==
    IF Truthy(n) /\ n \notin seen
    THEN <<n>> \o union_normalized(rest, seen \cup {n})
    ELSE union_normalized(rest, seen)

union_normalized(parts, seen) ==
    IF parts = <<>> THEN <<>> ELSE union_step(normalize_str(Head(parts)), Tail(parts), seen)

\* " | ".join(merged) if merged else None
join_or_none(merged) == IF merged # <<>> THEN join(<<" ", "|", " ">>, merged) ELSE None

\* merged[0] if merged else None
first_or_none(merged) == IF merged # <<>> THEN merged[1] ELSE None

\* pub_year of lines 256-260
pub_year_of(pub_date) ==
    IF Truthy(pub_date) /\ leading_digits(pub_date, 4) = 4
    THEN int(SubSeq(pub_date, 1, 4))
    ELSE NoneInt

\* str(pub_year or "")
str_year(pub_year) ==
    IF pub_year = NoneInt \/ pub_year = 0 THEN <<>> ELSE str_int(pub_year)

\* cid of line 281
canonical_id_of(isbn13, norm_title_hash, first_author, publisher, pub_year) ==
    IF Truthy(isbn13) THEN isbn13
    ELSE stable_hash_id(<<Or(norm_title_hash, <<>>), Or(first_author, <<>>),
                          Or(publisher, <<>>), str_year(pub_year)>>)

\* score_g, score_gg of lines 275-276
score_g_of(t_g, a_g, pub_g, num_pages) ==
    Cardinality({i \in 1..4 :
        <<Truthy(t_g), a_g # <<>>, Truthy(pub_g), Truthy(num_pages)>>[i]})

score_gg_of(t_gg, a_gg, pub_gg, price_amt, isbn13_gg) ==
    Cardinality({i \in 1..5 :
        <<Truthy(t_gg), a_gg # <<>>, Truthy(pub_gg), price_amt # NoneInt /\ price_amt # 0,
          Truthy(isbn13_gg)>>[i]})

\* lines 277-278
pref_of(g_wins) ==
    IF g_wins THEN <<"g", "o", "o", "d", "r", "e", "a", "d", "s">>
    ELSE <<"g", "o", "o", "g", "l", "e">>

url_pref_of(g, gg, g_wins) ==
    IF g_wins THEN Get(g, "url")
    ELSE IF gg # EmptyDict THEN Get(gg, "url") ELSE Get(g, "url")

\* the dict returned at lines 283-307
merged_row(g, gg, merged_authors, merged_cats, pub_date, price_amt, title, publisher, isbn13, norm_title_hash, g_wins) ==
    [canonical_id |-> canonical_id_of(isbn13, norm_title_hash, first_or_none(merged_authors),
                                      publisher, pub_year_of(pub_date)),
     isbn13 |-> isbn13,
     isbn10 |-> Or(normalize_str(Or(Get(g, "isbn10"), Get(g, "isbn"))),
                   normalize_str(Get(gg, "isbn10"))),
     title |-> title,
     title_normalized |-> norm_title_hash,
     authors |-> join_or_none(merged_authors),
     first_author |-> first_or_none(merged_authors),
     publisher |-> publisher,
     pub_date |-> pub_date,
     pub_year |-> pub_year_of(pub_date),
     language |-> Or(Get(g, "language"), Get(gg, "language")),
     categories |-> join_or_none(merged_cats),
     num_pages |-> choose_survivor(Get(g, "num_pages"), Get(gg, "pageCount"), "goodreads"),
     format |-> choose_survivor(Get(g, "format"), Get(gg, "format"), "goodreads"),
     description |-> choose_survivor(Get(g, "desc"), Get(gg, "description"), "goodreads"),
     rating_value |-> Get(g, "rating_value"),
     rating_count |-> Get(g, "rating_count"),
     price_amount |-> price_amt,
     price_currency |-> Or(normalize_currency(Get(gg, "price_currency")),
                           normalize_currency(Get(g, "price_currency"))),
     source_preference |-> pref_of(g_wins),
     most_complete_url |-> url_pref_of(g, gg, g_wins),
     ingestion_date_goodreads |-> Get(g, "ingestion_date"),
     ingestion_date_google |-> Get(gg, "ingestion_date")]

\* lines 251-281, the locals of lines 225-230 being given
merge_normalized(g, gg, t_g, t_gg, a_g, a_gg, pub_g, pub_gg, price_amt, title) ==
    merged_row(g, gg,
        union_normalized(a_g \o a_gg, {}),
        union_normalized(normalize_categories(GetList(g, "categories"))
                         \o normalize_categories(GetList(gg, "categories")), {}),
        choose_survivor(pub_g, pub_gg, "goodreads"),
        price_amt,
        title,
        choose_survivor(normalize_str(Get(g, "publisher")),
                        normalize_str(Get(gg, "publisher")), "goodreads"),
        Or(normalize_str(Get(g, "isbn13")), normalize_str(Get(gg, "isbn13"))),
        normalize_title(title),
        score_g_of(t_g, a_g, pub_g, Get(g, "num_pages"))
            >= score_gg_of(t_gg, a_gg, pub_gg, price_amt, normalize_str(Get(gg, "isbn13"))))

\* lines 225-230, 263, 271
merge_locals(g, gg, t_g, t_gg) ==
    merge_normalized(g, gg, t_g, t_gg,
        normalize_author(GetList(g, "authors")),
        normalize_author(GetList(gg, "authors")),
        iso_date(Get(g, "pub_date")),
        iso_date(Get(gg, "pub_date")),
        OrAmount(safe_decimal(Get(gg, "price_amount")), safe_decimal(Get(g, "price_amount"))),
        choose_survivor(t_g, t_gg, "goodreads"))

\* merge_records hashing the run timestamp into the identifier
merge_records_stamped(g, gg) ==
    [merge_locals(g, gg, normalize_str(Get(g, "title")), normalize_str(Get(gg, "title")))
        EXCEPT !.canonical_id = @ \o <<":">> \o str_int(ts)]

merge_records(g, gg) ==
    merge_locals(g, gg, normalize_str(Get(g, "title")), normalize_str(Get(gg, "title")))

\* ------------------------------------------------------------------------
\* PIPELINE
\* ------------------------------------------------------------------------
\* d[k] = v
dict_set(d, k, v) == [x \in DOMAIN d \cup {k} |-> IF x = k THEN v ELSE d[x]]
\* d.setdefault(k, v)
dict_setdefault(d, k, v) == IF k \in DOMAIN d THEN d ELSE dict_set(d, k, v)

\* f"{tnorm}||{afirst}" if tnorm and afirst else None
key_of(tnorm, afirst) ==
    IF Truthy(tnorm) /\ Truthy(afirst) THEN tnorm \o <<"|", "|">> \o afirst ELSE None

heuristic_key(r) ==
    key_of(normalize_title(Get(r, "title")), get_first_author(GetList(r, "authors")))

\* lines 330-331
put_gbid(d, r) ==
    IF Truthy(Get(r, "gb_id")) THEN dict_set(d, Get(r, "gb_id"), r) ELSE d
\* lines 332-334
put_isbn13(d, r, isbn) ==
    IF Truthy(isbn) THEN dict_set(d, isbn, r) ELSE d
\* lines 335-339
put_key(d, r, k) ==
    IF k # None THEN dict_setdefault(d, k, r) ELSE d

\* the loop of lines 329-339, one dict at a time; rs is the list processed
RECURSIVE index_by_gbid(_)
index_by_gbid(rs) ==
    IF rs = <<>> THEN EmptyDict
    ELSE put_gbid(index_by_gbid(SubSeq(rs, 1, Len(rs) - 1)), rs[Len(rs)])

RECURSIVE index_by_isbn13(_)
index_by_isbn13(rs) ==
    IF rs = <<>> THEN EmptyDict
    ELSE put_isbn13(index_by_isbn13(SubSeq(rs, 1, Len(rs) - 1)), rs[Len(rs)],
                    normalize_str(Get(rs[Len(rs)], "isbn13")))

RECURSIVE index_by_key(_)
index_by_key(rs) ==
    IF rs = <<>> THEN EmptyDict
    ELSE put_key(index_by_key(SubSeq(rs, 1, Len(rs) - 1)), rs[Len(rs)],
                 heuristic_key(rs[Len(rs)]))

\* gid of line 349
gid_of(g) == IF Get(g, "id") # None THEN Get(g, "id") ELSE <<>>

\* match_cascade trying the ISBN before the identifier
match_cascade_isbn_first(gid, isbn, key) ==
    IF Truthy(isbn) /\ isbn \in DOMAIN google_by_isbn13
    THEN [matched |-> google_by_isbn13[isbn], method |-> "isbn"]
    ELSE IF Truthy(gid) /\ gid \in DOMAIN google_by_gbid
    THEN [matched |-> google_by_gbid[gid], method |-> "id"]
    ELSE IF Truthy(key) /\ key \in DOMAIN google_by_key
    THEN [matched |-> google_by_key[key], method |-> "heuristic"]
    ELSE [matched |-> EmptyDict, method |-> "none"]

\* the cascade of lines 350-366: the matched record (EmptyDict for the
\* `matched = None` of line 348) and the method
match_cascade(gid, isbn, key) ==
    IF Truthy(gid) /\ gid \in DOMAIN google_by_gbid
    THEN [matched |-> google_by_gbid[gid], method |-> "id"]
    ELSE IF Truthy(isbn) /\ isbn \in DOMAIN google_by_isbn13
    THEN [matched |-> google_by_isbn13[isbn], method |-> "isbn"]
    ELSE IF Truthy(key) /\ key \in DOMAIN google_by_key
    THEN [matched |-> google_by_key[key], method |-> "heuristic"]
    ELSE [matched |-> EmptyDict, method |-> "none"]

match_record(g) ==
    match_cascade(gid_of(g), normalize_str(Or(Get(g, "isbn13"), Get(g, "isbn"))),
                  heuristic_key(g))

\* v or ""
NoneAsEmpty(v) == IF v = None THEN <<>> ELSE v

\* detail_row taking the identifier from the matched record
detail_row_matched_id(g, m, merged) ==
    [canonical_id |-> merged.canonical_id,
     gb_id |-> NoneAsEmpty(Get(m.matched, "gb_id")),
     from_google |-> (m.matched # EmptyDict),
     merge_method |-> m.method,
     timestamp |-> ts]

\* detail_row taking the canonical_id of the primary record alone, as it
\* is before the matched record supplies an ISBN-13
detail_row_unmerged_id(g, m, merged) ==
    [canonical_id |-> merge_records(g, EmptyDict).canonical_id,
     gb_id |-> gid_of(g),
     from_google |-> (m.matched # EmptyDict),
     merge_method |-> m.method,
     timestamp |-> ts]

\* the row of lines 371-377
detail_row(g, m, merged) ==
    [canonical_id |-> merged.canonical_id,
     gb_id |-> gid_of(g),
     from_google |-> (m.matched # EmptyDict),
     merge_method |-> m.method,
     timestamp |-> ts]

\* lines 368-377 for one record
rows_of(g, m, merged) == [merged |-> merged, detail |-> detail_row(g, m, merged)]
merge_matched(g, m) == rows_of(g, m, merge_records(g, m.matched))
process_record(g) == merge_matched(g, match_record(g))

\* df_final.notnull().sum(axis=1) for one row
IntColumns == {"pub_year", "price_amount"}
notnull_count(row) ==
    Cardinality({c \in DOMAIN row \ IntColumns : row[c] # None})
    + Cardinality({c \in IntColumns : row[c] # NoneInt})

\* sort_values("_score", ascending=False) with the default kind, quicksort,
\* which is not stable: every order of the rows that is descending in
\* _score is an order a build can produce (rows are named by their index
\* label, 1..n here for 0..n-1)
sorted_orders(rows) ==
    {p \in [1..Len(rows) -> 1..Len(rows)] :
        /\ \A i, j \in 1..Len(rows) : i # j => p[i] # p[j]
        /\ \A i \in 1..(Len(rows) - 1) :
              notnull_count(rows[p[i]]) >= notnull_count(rows[p[i + 1]])}

\* drop_duplicates whose result is not assigned back: every row is kept
drop_duplicates_unassigned(rows, order, seen) ==
    [i \in 1..Len(order) |-> [index |-> order[i], row |-> rows[order[i]]]]

\* drop_duplicates(subset=["canonical_id"], keep="first") on the rows taken
\* in `order`
RECURSIVE drop_duplicates(_, _, _)
drop_duplicates(rows, order, seen) ==
    IF order = <<>> THEN <<>>
    ELSE IF rows[Head(order)].canonical_id \in seen
    THEN drop_duplicates(rows, Tail(order), seen)
    ELSE <<[index |-> Head(order), row |-> rows[Head(order)]]>>
         \o drop_duplicates(rows, Tail(order), seen \cup {rows[Head(order)].canonical_id})

\* lines 343-377: the rows of both lists, in input order
process_all(grs) == [i \in 1..Len(grs) |-> process_record(grs[i])]
merged_of(rows) == [i \in 1..Len(rows) |-> rows[i].merged]
detail_of(rows) == [i \in 1..Len(rows) |-> rows[i].detail]

\* no request was sent yet
NoResponse == [raised |-> FALSE, status |-> 0, json_ok |-> FALSE, items |-> 0]

\* search_api_all is not running
SearchIdle ==
    /\ query = <<>>
    /\ start = 0
    /\ results = <<>>
    /\ res = NoResponse
    /\ loop = "idle"

\* the metrics of lines 398-414 that count records, final being the frame
\* after deduplication (the percentages and the histogram of
\* source_preference are left out)
metrics_of(final) ==
    [generated_at |-> ts,
     rows_input_goodreads |-> Len(gr_recs),
     rows_output |-> Len(final),
     matched_with_google |-> Cardinality({i \in 1..Len(detail_rows) : detail_rows[i].from_google}),
     duplicates_removed |-> Len(merged_rows) - Len(final)]

\* lines 323-339
BuildIndexes ==
    /\ pc = "start"
    /\ google_by_gbid' = index_by_gbid(recs)
    /\ google_by_isbn13' = index_by_isbn13(recs)
    /\ google_by_key' = index_by_key(recs)
    /\ pc' = "indexed"
    /\ UNCHANGED <<date_parser, gr_recs, recs, merged_rows, detail_rows, df_final,
                   sort_order, ts, run, prev_final, prev_detail, metrics>>
    /\ UNCHANGED search_vars

\* lines 343-377
MatchAndMerge ==
    /\ pc = "indexed"
    /\ \E rows \in {process_all(gr_recs)} :
          /\ merged_rows' = merged_of(rows)
          /\ detail_rows' = detail_of(rows)
    /\ pc' = "merged"
    /\ UNCHANGED <<date_parser, gr_recs, recs, google_by_gbid, google_by_isbn13,
                   google_by_key, df_final, sort_order, ts, run, prev_final, prev_detail,
                   metrics>>
    /\ UNCHANGED search_vars

\* lines 379-414.  The sort is a fixed algorithm: on the rows it already
\* sorted (a second run over the same inputs) it returns the same order.
Deduplicate ==
    /\ pc = "merged"
    /\ \E order \in sorted_orders(merged_rows) :
          /\ run > 1 => order = sort_order
          /\ sort_order' = order
          /\ df_final' = drop_duplicates(merged_rows, order, {})
          /\ metrics' = metrics_of(drop_duplicates(merged_rows, order, {}))
    /\ pc' = "done"
    /\ UNCHANGED <<date_parser, gr_recs, recs, google_by_gbid, google_by_isbn13,
                   google_by_key, merged_rows, detail_rows, ts, run, prev_final,
                   prev_detail>>
    /\ UNCHANGED search_vars

\* a second call of run_pipeline on the same landing files (lines 313-318)
MaxRuns == 2
Rerun ==
    /\ pc = "done"
    /\ run < MaxRuns
    /\ prev_final' = df_final
    /\ prev_detail' = detail_rows
    /\ run' = run + 1
    /\ ts' = ts + 1
    /\ pc' = "start"
    /\ google_by_gbid' = EmptyDict
    /\ google_by_isbn13' = EmptyDict
    /\ google_by_key' = EmptyDict
    /\ merged_rows' = <<>>
    /\ detail_rows' = <<>>
    /\ df_final' = <<>>
    /\ metrics' = EmptyDict
    /\ UNCHANGED <<date_parser, gr_recs, recs, sort_order>>
    /\ UNCHANGED search_vars

Next == BuildIndexes \/ MatchAndMerge \/ Deduplicate \/ Rerun

\* ------------------------------------------------------------------------
\* Inputs: the landing files read at lines 317-318
\* ------------------------------------------------------------------------
tAb == <<"A", " ", "b">>
tAbLoose == <<"a", " ", " ", "B", "!">>
tZz == <<"Z", "z">>
tBang == <<"!">>
isbn97 == <<"9", "7">>
isbn97float == <<"9", "7", ".", "0">>
d1999 == <<"1", "9", "9", "9">>
d0000 == <<"0", "0", "0", "0">>
dMay1 == <<"2", "0", "2", "0", "-", "0", "5", "-", "0", "1">>
dMay13 == <<"2", "0", "2", "0", "-", "5", "-", "1", "3">>

\* a BookData record as scraper_goodreads.py writes it
BookData == [id |-> None, isbn10 |-> None, isbn13 |-> None, title |-> None,
             authors |-> [kind |-> "list", val |-> <<>>], publisher |-> None,
             pub_date |-> None, language |-> None,
             categories |-> [kind |-> "list", val |-> <<>>], desc |-> None,
             num_pages |-> None, format |-> None, rating_value |-> None,
             rating_count |-> None, url |-> <<>>, ingestion_date |-> None]

G1 == [BookData EXCEPT !.id = <<"1">>, !.isbn13 = isbn97, !.title = tAb,
          !.authors = [kind |-> "list", val |-> << <<"X">> >>],
          !.publisher = <<"P">>, !.pub_date = dMay1, !.language = <<"e", "n">>,
          !.num_pages = <<"1", "0">>, !.url = <<"u", "1">>]
G2 == [BookData EXCEPT !.id = <<"2">>, !.title = tAbLoose,
          !.authors = [kind |-> "list", val |-> << <<"X">>, <<"x">>, <<" ", "X">> >>],
          !.url = <<"u", "2">>]
G3 == [BookData EXCEPT !.id = <<"3">>, !.title = tAb,
          !.authors = [kind |-> "list", val |-> << <<"X">> >>],
          !.language = <<"e", "n">>, !.url = <<"u", "3">>]
G4 == [BookData EXCEPT !.id = <<"4">>, !.title = tAb,
          !.authors = [kind |-> "list", val |-> << <<"X">> >>],
          !.pub_date = d0000, !.url = <<"u", "4">>]
G5 == [BookData EXCEPT !.id = <<"5">>, !.title = tAb,
          !.authors = [kind |-> "list", val |-> << <<"X">> >>],
          !.language = <<"e", "s">>, !.url = <<"u", "3">>]
\* a record of another producer: no id, the ISBN under the legacy key
G6 == [title |-> tBang, isbn |-> isbn97float, pub_date |-> d1999]

\* a record of a producer that carries commerce data (lines 263-264 read
\* price_amount and price_currency of the primary record)
G7 == [id |-> <<"8">>, title |-> tAb, authors |-> [kind |-> "list", val |-> << <<"X">> >>],
       price_amount |-> <<"5">>, price_currency |-> <<"$">>]

PrimaryPool == <<G1, G2, G3, G4, G5, G6, G7>>

\* rows of googlebooks_books.csv as extract_data (enrich_googlebooks.py) writes them
S1 == [gb_id |-> <<"1">>, google_id |-> <<"g", "1">>, title |-> tZz,
       authors |-> [kind |-> "str", val |-> <<"Q">>], publisher |-> <<"Q">>,
       pub_date |-> d1999, categories |-> [kind |-> "str", val |-> <<"c", " ", "|", " ", "d">>],
       isbn13 |-> None, price_amount |-> <<"1", "2", ",", "5">>,
       price_currency |-> <<"$">>]
S2 == [gb_id |-> <<"1">>, google_id |-> <<"g", "2">>, title |-> tAb,
       authors |-> [kind |-> "str", val |-> <<"x", " ", "|", " ", "X", " ", "|", "Y">>],
       publisher |-> <<"P", " ">>, pub_date |-> dMay13, categories |-> NoList,
       isbn13 |-> isbn97, price_amount |-> None, price_currency |-> None]
S3 == [gb_id |-> <<"7">>, google_id |-> <<"g", "3">>, title |-> tAbLoose,
       authors |-> [kind |-> "str", val |-> <<"X", ";", "Y">>], publisher |-> None,
       pub_date |-> dMay13, categories |-> NoList,
       isbn13 |-> isbn97float, price_amount |-> <<"0">>, price_currency |-> None]
S4 == [gb_id |-> <<"8">>, google_id |-> <<"g", "4">>, title |-> tAb,
       authors |-> [kind |-> "str", val |-> <<"X">>], publisher |-> <<"P">>,
       pub_date |-> None, categories |-> NoList,
       isbn13 |-> None, price_amount |-> None, price_currency |-> None]

SecondaryPool == <<S4, S1, S2, S3>>

MaxPrimary == 2
MaxSecondary == 3

\* the lists of at most n records of pool, in the order of pool
Lists(pool, n) ==
    {LET chosen(r) == r \in T IN SelectSeq(pool, chosen) :
        T \in {U \in SUBSET Range(pool) : Cardinality(U) <= n}}

Init ==
    /\ date_parser \in BOOLEAN
    /\ gr_recs \in Lists(PrimaryPool, MaxPrimary)
    /\ recs \in Lists(SecondaryPool, MaxSecondary)
    /\ pc = "start"
    /\ google_by_gbid = EmptyDict
    /\ google_by_isbn13 = EmptyDict
    /\ google_by_key = EmptyDict
    /\ merged_rows = <<>>
    /\ detail_rows = <<>>
    /\ df_final = <<>>
    /\ sort_order = <<>>
    /\ ts = 1
    /\ run = 1
    /\ prev_final = <<>>
    /\ prev_detail = <<>>
    /\ metrics = EmptyDict
    /\ SearchIdle

Spec == Init /\ [][Next]_vars

\* ------------------------------------------------------------------------
\* A single merge: one primary record and at most one secondary record,
\* which carries the primary's id and so is the record matched
\* ------------------------------------------------------------------------
MergeTitles == {None, tAb, tAbLoose}
MergeAuthors == {[kind |-> "list", val |-> <<>>],
                 [kind |-> "list", val |-> << <<"X">>, <<"x">>, <<" ", "X">> >>],
                 [kind |-> "str", val |-> <<"Y", " ", "|", "X", ",", "y">>]}
MergePublishers == {None, <<"P">>, <<" ", "Q">>}
MergeDates == {None, d0000, dMay1}

MergePrimaries ==
    {[BookData EXCEPT !.id = <<"1">>, !.title = t, !.authors = a, !.publisher = p,
                      !.pub_date = d] :
        t \in MergeTitles, a \in MergeAuthors, p \in MergePublishers, d \in MergeDates}

MergeSecondaries ==
    {[gb_id |-> <<"1">>, google_id |-> <<"g", "1">>, title |-> t, authors |-> a,
      publisher |-> p, pub_date |-> d, categories |-> NoList, isbn13 |-> None,
      price_amount |-> None, price_currency |-> None] :
        t \in {None, tZz}, a \in MergeAuthors \cup {NoList}, p \in {None, <<"P">>, <<"R">>},
        d \in {None, d1999}}

InitMerge ==
    /\ date_parser \in BOOLEAN
    /\ gr_recs \in {<<g>> : g \in MergePrimaries}
    /\ recs \in {<<>>} \cup {<<gg>> : gg \in MergeSecondaries}
    /\ pc = "start"
    /\ google_by_gbid = EmptyDict
    /\ google_by_isbn13 = EmptyDict
    /\ google_by_key = EmptyDict
    /\ merged_rows = <<>>
    /\ detail_rows = <<>>
    /\ df_final = <<>>
    /\ sort_order = <<>>
    /\ ts = 1
    /\ run = 1
    /\ prev_final = <<>>
    /\ prev_detail = <<>>
    /\ metrics = EmptyDict
    /\ SearchIdle

SpecMerge == InitMerge /\ [][Next]_vars

\* ------------------------------------------------------------------------
\* Dates: one primary record and the secondary record carrying its id, one
\* of the two holding a date text of the shape Y, Y-M or Y-M-D (a valid
\* calendar date, month and day written with or without a leading zero)
\* ------------------------------------------------------------------------
DateYears == {<<"0", "0", "0", "0">>, <<"1", "9", "9", "9">>, <<"2", "0", "2", "0">>}
DateMonths == {<<"1">>, <<"0", "1">>, <<"5">>, <<"0", "5">>, <<"1", "2">>}
DateDays == {<<"1">>, <<"0", "1">>, <<"1", "3">>, <<"3", "1">>}

\* year, month and day as written; an absent part is the empty text
DateParts ==
    {[y |-> y, m |-> <<>>, d |-> <<>>] : y \in DateYears}
    \cup {[y |-> y, m |-> m, d |-> <<>>] : y \in DateYears, m \in DateMonths}
    \cup {[y |-> y, m |-> m, d |-> d] : y \in DateYears, m \in DateMonths, d \in DateDays}

\* the text of the source
TextOf(p) ==
    p.y \o (IF p.m = <<>> THEN <<>> ELSE <<"-">> \o p.m)
        \o (IF p.d = <<>> THEN <<>> ELSE <<"-">> \o p.d)

DatedPrimary(d) == [BookData EXCEPT !.id = <<"1">>, !.title = tAb, !.pub_date = d]
DatedSecondary(d) ==
    [gb_id |-> <<"1">>, google_id |-> <<"g", "1">>, title |-> tAb, authors |-> NoList,
     publisher |-> None, pub_date |-> d, categories |-> NoList, isbn13 |-> None,
     price_amount |-> None, price_currency |-> None]

DatedInputs ==
    {[g |-> DatedPrimary(None), s |-> <<DatedSecondary(TextOf(p))>>] : p \in DateParts}
    \cup {[g |-> DatedPrimary(TextOf(p)), s |-> <<>>] : p \in DateParts}

InitDates ==
    /\ date_parser \in BOOLEAN
    /\ \E in \in DatedInputs : gr_recs = <<in.g>> /\ recs = in.s
    /\ pc = "start"
    /\ google_by_gbid = EmptyDict
    /\ google_by_isbn13 = EmptyDict
    /\ google_by_key = EmptyDict
    /\ merged_rows = <<>>
    /\ detail_rows = <<>>
    /\ df_final = <<>>
    /\ sort_order = <<>>
    /\ ts = 1
    /\ run = 1
    /\ prev_final = <<>>
    /\ prev_detail = <<>>
    /\ metrics = EmptyDict
    /\ SearchIdle

SpecDates == InitDates /\ [][Next]_vars

\* ------------------------------------------------------------------------
\* No-match placeholders: secondary collections that hold the rows
\* extract_data writes for a primary id the search found nothing for
\* ------------------------------------------------------------------------
NOT_FOUND == <<"N", "O", "T", "_", "F", "O", "U", "N", "D">>

\* extract_data(gr_id, None) as a row of the csv: the other columns are empty
NotFoundRow(gr_id) ==
    [gb_id |-> gr_id, google_id |-> NOT_FOUND, title |-> None, authors |-> NoList,
     publisher |-> None, pub_date |-> None, categories |-> NoList, isbn13 |-> None,
     price_amount |-> None, price_currency |-> None]

PlaceholderPrimaries == <<G1, G3, G6>>
PlaceholderSecondaries == <<NotFoundRow(<<"1">>), NotFoundRow(<<"3">>), S2, S4>>

InitNotFound ==
    /\ date_parser \in BOOLEAN
    /\ gr_recs \in Lists(PlaceholderPrimaries, MaxPrimary)
    /\ recs \in Lists(PlaceholderSecondaries, MaxSecondary)
    /\ pc = "start"
    /\ google_by_gbid = EmptyDict
    /\ google_by_isbn13 = EmptyDict
    /\ google_by_key = EmptyDict
    /\ merged_rows = <<>>
    /\ detail_rows = <<>>
    /\ df_final = <<>>
    /\ sort_order = <<>>
    /\ ts = 1
    /\ run = 1
    /\ prev_final = <<>>
    /\ prev_detail = <<>>
    /\ metrics = EmptyDict
    /\ SearchIdle

SpecNotFound == InitNotFound /\ [][Next]_vars

\* ------------------------------------------------------------------------
\* search_api_all (enrich_googlebooks.py lines 41-95).  A response is
\* [raised, status, json_ok, items]: SESSION.get raised an exception, or it
\* returned `status`; res.json() succeeded or raised; the number of entries
\* of data["items"] (0 when the key is absent).  An item is named by its
\* position in the result feed.
\* ------------------------------------------------------------------------
max_results == 40
MaxPages == 2

Queries == {<<"i", "s", "b", "n", ":", "9", "7">>, <<"i", "n", "t", "i", "t", "l", "e", ":", "A">>}

\* page sizes: none, one, one short of a full page, a full page
PageSizes == {0, 1, max_results - 1, max_results}

\* what the API can answer to a request at startIndex s; the feed of the
\* model has no more than MaxPages full pages
Responses(s) ==
    {[raised |-> TRUE, status |-> 0, json_ok |-> FALSE, items |-> 0]}
    \cup {[raised |-> FALSE, status |-> c, json_ok |-> FALSE, items |-> 0] : c \in {429, 500, 200}}
    \cup {[raised |-> FALSE, status |-> 200, json_ok |-> TRUE, items |-> n] :
            n \in {k \in PageSizes : k = max_results => s < MaxPages * max_results}}

\* the n items that follow position s of the feed
items_of(s, n) == [i \in 1..n |-> s + i]

\* lines 54-63: the request is sent and answered
SendRequest ==
    /\ loop = "request"
    /\ \E r \in Responses(start) : res' = r
    /\ loop' = "response"
    /\ UNCHANGED <<query, start, results>>
    /\ UNCHANGED pipeline_vars

\* lines 66-68
RateLimited ==
    /\ loop = "response"
    /\ ~res.raised /\ res.status = 429
    /\ loop' = "request"
    /\ UNCHANGED <<query, start, results, res>>
    /\ UNCHANGED pipeline_vars

\* lines 71-72 and 92-93: another status, or an exception of the request or
\* of res.json()
Failed ==
    /\ loop = "response"
    /\ res.raised \/ res.status \notin {429, 200} \/ (res.status = 200 /\ ~res.json_ok)
    /\ loop' = "returned"
    /\ UNCHANGED <<query, start, results, res>>
    /\ UNCHANGED pipeline_vars

\* lines 74-86: no items, or fewer than max_results
LastPage ==
    /\ loop = "response"
    /\ ~res.raised /\ res.status = 200 /\ res.json_ok
    /\ res.items < max_results
    /\ results' = IF res.items = 0 THEN results ELSE results \o items_of(start, res.items)
    /\ loop' = "returned"
    /\ UNCHANGED <<query, start, res>>
    /\ UNCHANGED pipeline_vars

\* lines 74-90: a full page
FullPage ==
    /\ loop = "response"
    /\ ~res.raised /\ res.status = 200 /\ res.json_ok
    /\ res.items >= max_results
    /\ results' = results \o items_of(start, res.items)
    /\ start' = start + max_results
    /\ loop' = "request"
    /\ UNCHANGED <<query, res>>
    /\ UNCHANGED pipeline_vars

\* the next call of main's loop over the queries (lines 245-250)
Call ==
    /\ loop = "returned"
    /\ \E q \in Queries : query' = q
    /\ start' = 0
    /\ results' = <<>>
    /\ res' = NoResponse
    /\ loop' = "request"
    /\ UNCHANGED pipeline_vars

LoopStep == SendRequest \/ RateLimited \/ Failed \/ LastPage \/ FullPage

NextSearch == LoopStep \/ Call

\* entry of search_api_all (lines 48-50); run_pipeline is not running
InitSearch ==
    /\ date_parser \in BOOLEAN
    /\ gr_recs = <<>>
    /\ recs = <<>>
    /\ pc = "start"
    /\ google_by_gbid = EmptyDict
    /\ google_by_isbn13 = EmptyDict
    /\ google_by_key = EmptyDict
    /\ merged_rows = <<>>
    /\ detail_rows = <<>>
    /\ df_final = <<>>
    /\ sort_order = <<>>
    /\ ts = 1
    /\ run = 1
    /\ prev_final = <<>>
    /\ prev_detail = <<>>
    /\ metrics = EmptyDict
    /\ query \in Queries
    /\ start = 0
    /\ results = <<>>
    /\ res = NoResponse
    /\ loop = "request"

\* the function runs on: a step of the loop that can be taken is taken
SpecSearch == InitSearch /\ [][NextSearch]_vars /\ WF_vars(LoopStep)

\* ------------------------------------------------------------------------
\* Properties
\* ------------------------------------------------------------------------
Merged == pc \in {"merged", "done"}
Rows == 1..Len(merged_rows)
\* the secondary record merged into row i (EmptyDict when none matched)
MatchedOf(i) == match_record(gr_recs[i]).matched

\* C1: after the deduplication step no two records of the canonical output
\* share a canonical_id.
C1_UniqueCanonicalId ==
    pc = "done" =>
        \A i, j \in 1..Len(df_final) :
            i # j => df_final[i].row.canonical_id # df_final[j].row.canonical_id

\* two primary records resolved to one canonical_id and one of them was dropped
C1_Witness ==
    /\ pc = "done"
    /\ Len(merged_rows) = 2
    /\ merged_rows[1].canonical_id = merged_rows[2].canonical_id
    /\ Len(df_final) = 1

\* the first record of the secondary input whose key is k, keys[i] being
\* the key of record i
FirstWithKey(keys, k) ==
    recs[CHOOSE i \in 1..Len(recs) :
            /\ keys[i] = k
            /\ \A j \in 1..(i - 1) : keys[j] # k]

GbidKey(r) == IF Truthy(Get(r, "gb_id")) THEN Get(r, "gb_id") ELSE None
IsbnKey(r) == normalize_str(Get(r, "isbn13"))
GbidKeys == [i \in 1..Len(recs) |-> GbidKey(recs[i])]
IsbnKeys == [i \in 1..Len(recs) |-> IsbnKey(recs[i])]
HeuristicKeys == [i \in 1..Len(recs) |-> heuristic_key(recs[i])]

\* C2: the three secondary indexes are first-write-wins: each maps a key to
\* the earliest record of the secondary input that has the key.
C2_FirstWriteWins ==
    pc # "start" =>
        /\ \A k \in DOMAIN google_by_gbid : google_by_gbid[k] = FirstWithKey(GbidKeys, k)
        /\ \A k \in DOMAIN google_by_isbn13 : google_by_isbn13[k] = FirstWithKey(IsbnKeys, k)
        /\ \A k \in DOMAIN google_by_key : google_by_key[k] = FirstWithKey(HeuristicKeys, k)

IdHit(g) == Truthy(gid_of(g)) /\ gid_of(g) \in DOMAIN google_by_gbid
IsbnOf(g) == normalize_str(Or(Get(g, "isbn13"), Get(g, "isbn")))
IsbnHit(g) == Truthy(IsbnOf(g)) /\ IsbnOf(g) \in DOMAIN google_by_isbn13
KeyHit(g) == Truthy(heuristic_key(g)) /\ heuristic_key(g) \in DOMAIN google_by_key

\* C3: the matcher tries identifier, then ISBN, then heuristic key and stops
\* at the first hit: an id hit gives the id-indexed record and method id
\* whatever the other lookups say, method isbn only after an id miss, method
\* heuristic only after id and ISBN misses, method none only after three misses.
C3_MatchPriority ==
    Merged =>
        \A i \in Rows :
            LET g == gr_recs[i]
                method == detail_rows[i].merge_method
            IN  /\ IdHit(g) =>
                      /\ method = "id"
                      /\ merged_rows[i] = merge_records(g, google_by_gbid[gid_of(g)])
                /\ ~IdHit(g) /\ IsbnHit(g) =>
                      /\ method = "isbn"
                      /\ merged_rows[i] = merge_records(g, google_by_isbn13[IsbnOf(g)])
                /\ ~IdHit(g) /\ ~IsbnHit(g) /\ KeyHit(g) =>
                      /\ method = "heuristic"
                      /\ merged_rows[i] = merge_records(g, google_by_key[heuristic_key(g)])
                /\ method = "isbn" => ~IdHit(g) /\ IsbnHit(g)
                /\ method = "heuristic" => ~IdHit(g) /\ ~IsbnHit(g) /\ KeyHit(g)
                /\ method = "none" =>
                      /\ ~IdHit(g) /\ ~IsbnHit(g) /\ ~KeyHit(g)
                      /\ merged_rows[i] = merge_records(g, EmptyDict)
                /\ method \in {"id", "isbn", "heuristic", "none"}

\* a primary record whose id, ISBN and heuristic key hit three different
\* secondary records, matched by id
C3_Witness ==
    /\ Merged
    /\ \E i \in Rows :
          LET g == gr_recs[i] IN
          /\ IdHit(g) /\ IsbnHit(g) /\ KeyHit(g)
          /\ google_by_gbid[gid_of(g)] # google_by_isbn13[IsbnOf(g)]
          /\ google_by_gbid[gid_of(g)] # google_by_key[heuristic_key(g)]
          /\ google_by_isbn13[IsbnOf(g)] # google_by_key[heuristic_key(g)]
          /\ detail_rows[i].merge_method = "id"

RowSet(final) == {final[i].row : i \in 1..Len(final)}

\* C4: a second run on identical inputs yields the same canonical_id for
\* every primary record and the same set of canonical records; only the run
\* timestamp differs.
C4_Deterministic ==
    pc = "done" /\ run > 1 =>
        /\ Len(detail_rows) = Len(prev_detail)
        /\ \A i \in 1..Len(detail_rows) :
              detail_rows[i].canonical_id = prev_detail[i].canonical_id
        /\ RowSet(df_final) = RowSet(prev_final)

\* a second run finished, at another timestamp, over rows that tie on score
\* within one canonical_id group
C4_Witness ==
    /\ pc = "done" /\ run > 1
    /\ Len(merged_rows) = 2
    /\ merged_rows[1] # merged_rows[2]
    /\ merged_rows[1].canonical_id = merged_rows[2].canonical_id
    /\ notnull_count(merged_rows[1]) = notnull_count(merged_rows[2])
    /\ detail_rows[1].timestamp # prev_detail[1].timestamp

\* C5: canonical_id is the normalized ISBN-13 when it is non-null, and
\* otherwise stable_hash_id of (normalized merged title, first merged author,
\* merged publisher, pub_year as a string), a null value contributing "".
C5_CanonicalIdFormula ==
    Merged =>
        \A i \in Rows :
            LET r == merged_rows[i] IN
            r.canonical_id =
                IF r.isbn13 # None THEN r.isbn13
                ELSE stable_hash_id(<<NoneAsEmpty(r.title_normalized),
                                      NoneAsEmpty(r.first_author),
                                      NoneAsEmpty(r.publisher),
                                      IF r.pub_year = NoneInt THEN <<>>
                                      ELSE str_int(r.pub_year)>>)

IdentityTuple(r) == <<r.title_normalized, r.first_author, r.publisher, r.pub_year>>

\* C6: two merged records without ISBN-13 have the same canonical_id only
\* if their tuples (normalized title, first author, publisher, pub_year) are
\* equal; changing one of the four values changes the canonical_id.
C6_HashSeparatesTuples ==
    Merged =>
        \A i, j \in Rows :
            /\ merged_rows[i].isbn13 = None
            /\ merged_rows[j].isbn13 = None
            /\ merged_rows[i].canonical_id = merged_rows[j].canonical_id
            => IdentityTuple(merged_rows[i]) = IdentityTuple(merged_rows[j])

Group(cid) == {i \in Rows : merged_rows[i].canonical_id = cid}
MostComplete(cid) ==
    {i \in Group(cid) :
        \A j \in Group(cid) : notnull_count(merged_rows[i]) >= notnull_count(merged_rows[j])}
Earliest(S) == CHOOSE i \in S : \A j \in S : i <= j
Kept(cid) == {k \in 1..Len(df_final) : df_final[k].row.canonical_id = cid}

\* C7: for every canonical_id among the merged records the output holds
\* exactly the record of the group with the highest non-null count, the
\* earliest in primary input order on a tie, with its field values unchanged.
C7_KeepsMostCompleteEarliest ==
    pc = "done" =>
        \A i \in Rows :
            LET cid == merged_rows[i].canonical_id IN
            /\ Cardinality(Kept(cid)) = 1
            /\ \A k \in Kept(cid) :
                  /\ df_final[k].index = Earliest(MostComplete(cid))
                  /\ df_final[k].row = merged_rows[Earliest(MostComplete(cid))]

\* C8: the ledger holds one entry per primary record, in primary input
\* order; entry i carries the canonical_id of the record merged from primary
\* record i, that record's id and its merge method; deduplication leaves
\* the ledger as it was.
C8_LedgerPerPrimary ==
    Merged =>
        /\ Len(detail_rows) = Len(gr_recs)
        /\ Len(merged_rows) = Len(gr_recs)
        /\ \A i \in Rows :
              /\ detail_rows[i].canonical_id = merged_rows[i].canonical_id
              /\ merged_rows[i] = merge_records(gr_recs[i], MatchedOf(i))
              /\ detail_rows[i].gb_id = NoneAsEmpty(Get(gr_recs[i], "id"))
              /\ detail_rows[i].merge_method = match_record(gr_recs[i]).method
              /\ detail_rows[i].timestamp = ts

\* deduplication dropped a canonical record and the ledger still holds the
\* entries of both primary records
C8_Witness ==
    /\ pc = "done"
    /\ Len(gr_recs) = 2
    /\ Len(df_final) = 1
    /\ Len(detail_rows) = 2
    /\ detail_rows[1].merge_method # detail_rows[2].merge_method

\* the entries of seq, from position i on, whose key occurs at no earlier
\* position, keys[j] being the key of entry j
RECURSIVE FirstOccurrences(_, _, _)
FirstOccurrences(seq, keys, i) ==
    IF i > Len(seq) THEN <<>>
    ELSE IF \E j \in 1..(i - 1) : keys[j] = keys[i]
    THEN FirstOccurrences(seq, keys, i + 1)
    ELSE <<seq[i]>> \o FirstOccurrences(seq, keys, i + 1)

\* the primary authors followed by the secondary authors of row i
AuthorsOf(i) ==
    normalize_author(GetList(gr_recs[i], "authors"))
    \o normalize_author(GetList(MatchedOf(i), "authors"))

CaseFold(seq) == [j \in 1..Len(seq) |-> lower(normalize_str(seq[j]))]
ExactKey(seq) == [j \in 1..Len(seq) |-> normalize_str(seq[j])]

\* C9 as stated: the merged authors are the primary then the secondary
\* authors without duplicates, first occurrence kept, two entries being
\* duplicates when equal after case and whitespace normalization.
C9_DedupIgnoringCase ==
    Merged =>
        \A i \in Rows :
            merged_rows[i].authors = join_or_none(FirstOccurrences(AuthorsOf(i), CaseFold(AuthorsOf(i)), 1))

\* C9 amended: as above, two entries being duplicates when equal after
\* whitespace normalization (trimming, runs of whitespace collapsed), letter
\* case being significant; first_author is the first entry.
C9_DedupWhitespaceOnly ==
    Merged =>
        \A i \in Rows :
            LET m == FirstOccurrences(AuthorsOf(i), ExactKey(AuthorsOf(i)), 1) IN
            /\ merged_rows[i].authors = join_or_none(m)
            /\ merged_rows[i].first_author = first_or_none(m)
            /\ \A a, b \in 1..Len(m) : a # b => m[a] # m[b]

\* a merge whose secondary repeats a primary author up to whitespace, which
\* is dropped, and where two entries differing only in case are both kept
C9_Witness ==
    /\ Merged
    /\ \E i \in Rows :
          LET m == FirstOccurrences(AuthorsOf(i), ExactKey(AuthorsOf(i)), 1) IN
          /\ MatchedOf(i) # EmptyDict
          /\ Len(m) < Len(AuthorsOf(i))
          /\ Len(normalize_author(GetList(MatchedOf(i), "authors"))) > 0
          /\ \E a, b \in 1..Len(m) : a # b /\ lower(m[a]) = lower(m[b])

\* the survivor of a primary and a secondary normalized value
PrimaryFirst(v_g, v_gg) == IF v_g = None THEN v_gg ELSE v_g

\* C10: for title, pub_date and publisher the merged value is the
\* secondary's normalized value when the primary's is null, and the primary's
\* otherwise (secondary null, no secondary, or both present, equal or not).
C10_PrimarySurvives ==
    Merged =>
        \A i \in Rows :
            LET g == gr_recs[i]
                gg == MatchedOf(i)
            IN  /\ merged_rows[i].title =
                      PrimaryFirst(normalize_str(Get(g, "title")), normalize_str(Get(gg, "title")))
                /\ merged_rows[i].publisher =
                      PrimaryFirst(normalize_str(Get(g, "publisher")),
                                   normalize_str(Get(gg, "publisher")))
                /\ merged_rows[i].pub_date =
                      PrimaryFirst(iso_date(Get(g, "pub_date")), iso_date(Get(gg, "pub_date")))

\* a merge where title and publisher are present on both sides and differ
\* and the primary has no pub_date while the secondary has one
C10_Witness ==
    /\ Merged
    /\ \E i \in Rows :
          LET g == gr_recs[i]
              gg == MatchedOf(i)
          IN  /\ normalize_str(Get(g, "title")) # None
              /\ normalize_str(Get(gg, "title")) # None
              /\ normalize_str(Get(g, "title")) # normalize_str(Get(gg, "title"))
              /\ normalize_str(Get(g, "publisher")) # None
              /\ normalize_str(Get(gg, "publisher")) # None
              /\ normalize_str(Get(g, "publisher")) # normalize_str(Get(gg, "publisher"))
              /\ iso_date(Get(g, "pub_date")) = None
              /\ merged_rows[i].pub_date = iso_date(Get(gg, "pub_date"))
              /\ merged_rows[i].pub_date # None

\* C11: the merged price_amount is the matched secondary record's parsed
\* value whenever a secondary is matched and that value is non-null, and the
\* primary's parsed value otherwise; likewise price_currency.
C11_SecondaryPricePreferred ==
    Merged =>
        \A i \in Rows :
            LET g == gr_recs[i]
                gg == MatchedOf(i)
            IN  /\ merged_rows[i].price_amount =
                      IF gg # EmptyDict /\ safe_decimal(Get(gg, "price_amount")) # NoneInt
                      THEN safe_decimal(Get(gg, "price_amount"))
                      ELSE safe_decimal(Get(g, "price_amount"))
                /\ merged_rows[i].price_currency =
                      IF gg # EmptyDict /\ normalize_currency(Get(gg, "price_currency")) # None
                      THEN normalize_currency(Get(gg, "price_currency"))
                      ELSE normalize_currency(Get(g, "price_currency"))

\* the number of TRUE entries of a tuple of booleans
CountTrue(flags) == Cardinality({k \in 1..Len(flags) : flags[k]})

\* non-null values among the primary's {title, authors, pub_date, num_pages}
PrimaryCount(g) ==
    CountTrue(<<normalize_str(Get(g, "title")) # None,
                normalize_author(GetList(g, "authors")) # <<>>,
                iso_date(Get(g, "pub_date")) # None,
                Get(g, "num_pages") # None>>)

\* non-null values among the secondary's own {title, authors, pub_date,
\* price_amount, isbn13}; the empty record (no match) has none
SecondaryCount(gg) ==
    CountTrue(<<normalize_str(Get(gg, "title")) # None,
                normalize_author(GetList(gg, "authors")) # <<>>,
                iso_date(Get(gg, "pub_date")) # None,
                safe_decimal(Get(gg, "price_amount")) # NoneInt,
                normalize_str(Get(gg, "isbn13")) # None>>)

\* C12: source_preference is "google" exactly when the matched secondary
\* record's own count is strictly greater than the primary's count, and
\* "goodreads" otherwise.
C12_PreferenceByOwnCounts ==
    Merged =>
        \A i \in Rows :
            merged_rows[i].source_preference =
                pref_of(~(SecondaryCount(MatchedOf(i)) > PrimaryCount(gr_recs[i])))

\* the date at the precision the text gives, month and day on two digits
PreciseOf(p) ==
    p.y \o (IF p.m = <<>> THEN <<>> ELSE <<"-">> \o zfill(p.m, 2))
        \o (IF p.d = <<>> THEN <<>> ELSE <<"-">> \o zfill(p.d, 2))

\* the date text that reaches the merged record of row i: the primary's, or
\* the matched secondary's when the primary has none
DateTextOf(i) ==
    IF Get(gr_recs[i], "pub_date") # None THEN Get(gr_recs[i], "pub_date")
    ELSE Get(MatchedOf(i), "pub_date")

\* C13: iso_date keeps the precision of the source text: Y-M-D yields
\* YYYY-MM-DD for every day and month (01 included), Y-M yields YYYY-MM, Y
\* yields YYYY; so a primary without pub_date merged with a secondary dated
\* "2020-05-01" has pub_date "2020-05-01".
C13_KeepsPrecision ==
    Merged =>
        \A i \in Rows : \A p \in DateParts :
            DateTextOf(i) = TextOf(p) =>
                /\ iso_date(TextOf(p)) = PreciseOf(p)
                /\ merged_rows[i].pub_date = PreciseOf(p)

\* the canonical_ids of the deduplicated output
FinalIds == {df_final[k].row.canonical_id : k \in 1..Len(df_final)}

\* C14: with an empty secondary collection every primary record yields a
\* canonical record with merge_method none, and with an empty primary
\* collection the records of the secondary collection appear in the
\* canonical output.
C14_PassThrough ==
    pc = "done" =>
        /\ recs = <<>> =>
              \A i \in Rows :
                  /\ detail_rows[i].merge_method = "none"
                  /\ merged_rows[i] = merge_records(gr_recs[i], EmptyDict)
                  /\ merged_rows[i].canonical_id \in FinalIds
        /\ gr_recs = <<>> =>
              \A j \in 1..Len(recs) :
                  \E k \in 1..Len(df_final) :
                      df_final[k].row.title = normalize_str(Get(recs[j], "title"))

\* the records of the deduplicated output that were matched to a secondary
MatchedInOutput == {k \in 1..Len(df_final) : detail_rows[df_final[k].index].from_google}

\* C15: matched_with_google is the number of records of the deduplicated
\* output that were matched to a secondary record, so it never exceeds
\* rows_output; duplicates_removed is the number of merged records minus
\* rows_output.
C15_MetricsOverOutput ==
    pc = "done" =>
        /\ metrics.rows_output = Len(df_final)
        /\ metrics.matched_with_google = Cardinality(MatchedInOutput)
        /\ metrics.matched_with_google <= metrics.rows_output
        /\ metrics.duplicates_removed = Len(merged_rows) - metrics.rows_output

\* a secondary entry that is only the no-match placeholder
IsPlaceholder(r) == r # EmptyDict /\ Get(r, "google_id") = NOT_FOUND

\* C16: from_google holds exactly when merge_method is id, isbn or
\* heuristic, and a NOT_FOUND placeholder is never returned as a match: a
\* primary record that no real secondary record matches is reported with
\* merge_method none and from_google false.
C16_PlaceholderNeverMatched ==
    Merged =>
        \A i \in Rows :
            /\ detail_rows[i].from_google
                  = (detail_rows[i].merge_method \in {"id", "isbn", "heuristic"})
            /\ ~IsPlaceholder(MatchedOf(i))
            /\ (\A j \in 1..Len(recs) : IsPlaceholder(recs[j]))
                  => /\ detail_rows[i].merge_method = "none"
                     /\ ~detail_rows[i].from_google

\* C17: after a run every canonical_id of the ledger is the canonical_id of
\* exactly one record of the deduplicated output, and the canonical_id of
\* every output record is non-null and appears in the ledger.
C17_ReferentialIntegrity ==
    pc = "done" =>
        /\ \A i \in 1..Len(detail_rows) :
              Cardinality({k \in 1..Len(df_final) :
                  df_final[k].row.canonical_id = detail_rows[i].canonical_id}) = 1
        /\ \A k \in 1..Len(df_final) :
              /\ df_final[k].row.canonical_id # None
              /\ \E i \in 1..Len(detail_rows) :
                    detail_rows[i].canonical_id = df_final[k].row.canonical_id

\* a run whose two ledger entries refer to one output record whose
\* canonical_id is the ISBN-13 the matched secondary record supplied
C17_Witness ==
    /\ pc = "done"
    /\ Len(detail_rows) = 2
    /\ Len(df_final) = 1
    /\ detail_rows[1].canonical_id = detail_rows[2].canonical_id
    /\ df_final[1].row.isbn13 # None
    /\ \A i \in 1..2 : normalize_str(Get(gr_recs[i], "isbn13")) = None
    /\ \A i \in 1..2 : detail_rows[i].from_google

\* what one step of the loop does with the response it holds
StepRules ==
    loop = "response" =>
        /\ (~res.raised /\ res.status = 429)
              => (loop' = "request" /\ start' = start /\ results' = results)
        /\ (res.raised \/ res.status \notin {429, 200} \/ ~res.json_ok)
              => ((~res.raised /\ res.status = 429) \/ (loop' = "returned" /\ results' = results))
        /\ (~res.raised /\ res.status = 200 /\ res.json_ok /\ res.items < max_results)
              => (loop' = "returned" /\ start' = start)
        /\ (~res.raised /\ res.status = 200 /\ res.json_ok /\ res.items = max_results)
              => /\ loop' = "request"
                 /\ start' = start + max_results
                 /\ results' = results \o items_of(start, max_results)

\* C18: every call of search_api_all eventually returns, whatever the API
\* answers: a 429 is retried on the same startIndex with the results
\* unchanged, another non-200 status or an exception ends the loop, an empty
\* or short page ends the loop, a full page appends its items and advances
\* startIndex by max_results.
C18_AlwaysReturns ==
    /\ [][StepRules]_vars
    /\ (loop = "request") ~> (loop = "returned")

====
